---- MODULE Spec2Model ----
(***************************************************************************)
(* Model of BondStockMonitor (src/check.py): the cycle scheduler `run`,    *)
(* the holdings tracker `check_holdings`, the scan orchestrator            *)
(* `scan_market` with its thread pool, and the pair evaluator              *)
(* `check_single_pair` with the shared stock_price_cache.                  *)
(*                                                                         *)
(* Numbers.  Prices are positive integers.  A relative change              *)
(* (a - b) / b is kept exact as the pair <<a - b, b>> (numerator,          *)
(* positive denominator); the CONFIG thresholds are kept in thousandths    *)
(* (0.015 is 15), and a comparison change >= t is done by                  *)
(* cross-multiplication: num * 1000 >= t * den.  The bond change of a      *)
(* snapshot row (already divided by 100 at src/check.py:197) is kept in    *)
(* thousandths as well.                                                    *)
(***************************************************************************)
EXTENDS Integers, Sequences, FiniteSets, TLC

\* ------------------------------------------------------------------ bounds
NumBonds == 2
NumHoldings == 2
MaxCycles == 2
PoolBonds == 11
PoolStarted == 4

\* ------------------------------------------------------------------ CONFIG
pulse_threshold == 15
min_bond_change == 5
stop_profit == 8
stop_loss == 0 - 5
max_workers == 10

\* ------------------------------------------------------------------ inputs
\* underlying prices a snapshot can show: 200 -> 203 is a change of exactly
\* 0.015, 203 -> 206 is just below it, 200 -> 206 is above it
StockPrices == {200, 203, 206}
\* bond changes a snapshot row can show, in thousandths: below and at 0.005
BondChanges == {4, 5}
\* bond_change value standing for "the bond has no row in the snapshot"
NoRow == 0 - 1000
\* the closes a minute bar can show; against an entry price of 1000 they are
\* a pnl of -0.005, -0.004, 0, 0.007 and 0.008
BarPrices == {995, 996, 1000, 1007, 1008}

Bonds == 1 .. NumBonds
HoldBonds == 1 .. NumHoldings
\* the watch-list files: at most NumBonds bonds, each with the code of its
\* stock; several bonds may name one stock.  Stock codes are numbered in the
\* order of their first appearance, which loses no case.  The empty mapping
\* is the missing, malformed or empty file.
WatchLists ==
    { f \in UNION { [1 .. n -> Bonds] : n \in 0 .. NumBonds } :
        \A b \in DOMAIN f :
            \/ f[b] = 1
            \/ \E c \in 1 .. (b - 1) : f[b] <= f[c] + 1 }

VARIABLES
    pc,                 \* position of the main thread in run()
    bond_stock_map,     \* self.bond_stock_map: bond_code -> stock_code
    hold_list,          \* self.hold_list: bond_code -> entry_price
    stock_price_cache,  \* self.stock_price_cache: stock_code -> previous price
    all_bonds_data,     \* self.all_bonds_data: <<>> (None) or <<table>>
    task,               \* one future per watched bond: its position and locals
    opportunities,      \* the local list of scan_market
    scan_return,        \* what the last call of scan_market returned
    cache_at_fanout,    \* history: the cache when the cycle's tasks were submitted
    cycle,              \* history: number of scans that reached the fan-out
    hold_todo,          \* check_holdings: items of list(hold_list.items()) left
    bond_data,          \* check_holdings: <<>> (None) or <<current_price>>
    hold_seen,          \* history: what the loop did with each item of this call
    report,             \* the stop-profit / stop-loss message of this iteration
    cycle_log,          \* history: the calls run has made in the current cycle
    watch_file,         \* history: what the watch-list file was found to be
    interrupted,        \* history: a KeyboardInterrupt was raised in the main thread
    clock_now,          \* classification of one time: the <<hour, minute>>
    session_state,      \* classification of one time: the result
    min_pc,             \* get_stock_min_data: position in the retry loop
    min_attempt,        \* get_stock_min_data: the loop variable attempt
    min_responses,      \* get_stock_min_data: what the provider answered so far
    min_slept,          \* get_stock_min_data: seconds spent in time.sleep
    min_result          \* get_stock_min_data: <<>> (None) or <<latest close>>

\* the variables of the monitor
main == << pc, bond_stock_map, hold_list, stock_price_cache, all_bonds_data,
           task, opportunities, scan_return, cache_at_fanout, cycle,
           hold_todo, bond_data, hold_seen, report, cycle_log, watch_file,
           interrupted >>

\* the variables of the two functions that are modelled on their own
aux == << clock_now, session_state, min_pc, min_attempt, min_responses,
          min_slept, min_result >>

vars == << main, aux >>

\* ------------------------------------------------------------------ helpers
\* a dict as a function: d[k] = v added or overwritten
Put(d, k, v) == [x \in (DOMAIN d) \cup {k} |-> IF x = k THEN v ELSE d[x]]
\* a dict as a function: del d[k]
Del(d, k) == [x \in (DOMAIN d) \ {k} |-> d[x]]
EmptyDict == [x \in {} |-> 0]

RECURSIVE SortedSeq(_)
\* the elements of a finite set of integers in ascending order
SortedSeq(S) ==
    IF S = {} THEN << >>
    ELSE LET m == CHOOSE x \in S : \A y \in S : x <= y
         IN  << m >> \o SortedSeq(S \ {m})

\* ------------------------------------------------------------------ pair evaluator
\* (stock_price_from_comparison - previous_price) / previous_price
RelChange(new_price, previous_price) ==
    << new_price - previous_price, previous_price >>

\* stock_change = 0 on the first observation of a stock
FirstChange == << 0, 1 >>

\* the cache lookup: the previous price the pair observes, 0 when the key is absent
ObservedPrevious(cache, stock_code) ==
    IF stock_code \in DOMAIN cache THEN cache[stock_code] ELSE 0

\* the stock_change the pair computes from the cache and the row's stock price
ComputeChange(cache, stock_code, new_price) ==
    IF stock_code \in DOMAIN cache
    THEN RelChange(new_price, cache[stock_code])
    ELSE FirstChange

\* mutant: the pulse test excludes the cutoff (stock_change <= threshold skips)
BelowPulseInclusive(stock_change) ==
    stock_change[1] * 1000 <= pulse_threshold * stock_change[2]

\* mutant: the pulse test is inverted (stock_change > threshold skips)
BelowPulseInverted(stock_change) ==
    stock_change[1] * 1000 > pulse_threshold * stock_change[2]

\* stock_change < CONFIG["pulse_threshold"]: the pair is skipped
BelowPulse(stock_change) ==
    stock_change[1] * 1000 < pulse_threshold * stock_change[2]

\* bond_change < CONFIG["min_bond_change"]: the bond lags
BondLags(bond_change) == bond_change < min_bond_change

\* the value check_single_pair returns past the cache update: <<>> is None
Decide(bond_code, stock_code, stock_change, bond_change) ==
    IF BelowPulse(stock_change) THEN << >>
    ELSE IF BondLags(bond_change)
         THEN << [bond_code |-> bond_code, stock_code |-> stock_code,
                  stock_change |-> stock_change, bond_change |-> bond_change] >>
         ELSE << >>

\* the snapshot table of the current cycle
Table == all_bonds_data[1]

\* mutant: the check for an empty selection is missing
HasRowAlways(b) == TRUE

\* the snapshot holds a row for bond b: bond_row is not empty
HasRow(b) == Table.bond_change[b] # NoRow

\* tasks a worker thread is executing
Running == { b \in DOMAIN task : task[b].st = "update" }

IdleTask == [st |-> "idle", previous_price |-> 0, stock_change |-> FirstChange,
             result |-> << >>, failed |-> FALSE]

\* mutant: the executor starts a thread for every submitted evaluation
WorkerAvailableAlways == TRUE

\* ThreadPoolExecutor(max_workers=CONFIG["max_workers"]): a submitted
\* evaluation starts when fewer than max_workers evaluations are executing
WorkerAvailable == Cardinality(Running) < max_workers

\* check_single_pair up to the cache lookup: no row, or an exception while the
\* row is read and logged, ends the evaluation with None; otherwise the pair
\* reads the cache and computes stock_change
StartPair(b) ==
    /\ UNCHANGED << cycle_log, watch_file, interrupted, aux >>
    /\ b \in DOMAIN task
    /\ task[b].st = "queued"
    /\ WorkerAvailable
    /\ IF ~HasRow(b)
       THEN task' = [task EXCEPT ![b].st = "done"]
       ELSE \E raises \in BOOLEAN :
              IF raises
              THEN task' = [task EXCEPT ![b].st = "done", ![b].failed = TRUE]
              ELSE LET stock_code == bond_stock_map[b]
                       price == Table.stock_price[stock_code]
                   IN  task' = [task EXCEPT
                          ![b].st = "update",
                          ![b].previous_price =
                              ObservedPrevious(stock_price_cache, stock_code),
                          ![b].stock_change =
                              ComputeChange(stock_price_cache, stock_code, price)]
    /\ UNCHANGED << pc, bond_stock_map, hold_list, stock_price_cache,
                    all_bonds_data, opportunities, scan_return, cache_at_fanout,
                    cycle, hold_todo, bond_data, hold_seen, report >>

\* mutant: the cache is written in the branch of a known stock code only
UpdateCacheOnlyKnown(b) ==
    /\ UNCHANGED << cycle_log, watch_file, interrupted, aux >>
    /\ b \in DOMAIN task
    /\ task[b].st = "update"
    /\ LET stock_code == bond_stock_map[b]
       IN  /\ stock_price_cache' =
                  IF stock_code \in DOMAIN stock_price_cache
                  THEN Put(stock_price_cache, stock_code,
                           Table.stock_price[stock_code])
                  ELSE stock_price_cache
           /\ task' = [task EXCEPT
                  ![b].st = "done",
                  ![b].result = Decide(b, stock_code, task[b].stock_change,
                                       Table.bond_change[b])]
    /\ UNCHANGED << pc, bond_stock_map, hold_list, all_bonds_data, opportunities,
                    scan_return, cache_at_fanout, cycle, hold_todo, bond_data,
                    hold_seen, report >>

\* mutant: the cache is written past the pulse test, so a pair that fails the
\* test returns before the write
UpdateCacheAfterPulseTest(b) ==
    /\ UNCHANGED << cycle_log, watch_file, interrupted, aux >>
    /\ b \in DOMAIN task
    /\ task[b].st = "update"
    /\ LET stock_code == bond_stock_map[b]
       IN  /\ stock_price_cache' =
                  IF BelowPulse(task[b].stock_change)
                  THEN stock_price_cache
                  ELSE Put(stock_price_cache, stock_code,
                           Table.stock_price[stock_code])
           /\ task' = [task EXCEPT
                  ![b].st = "done",
                  ![b].result = Decide(b, stock_code, task[b].stock_change,
                                       Table.bond_change[b])]
    /\ UNCHANGED << pc, bond_stock_map, hold_list, all_bonds_data, opportunities,
                    scan_return, cache_at_fanout, cycle, hold_todo, bond_data,
                    hold_seen, report >>

\* mutant: the cache is written in the branch of the first observation only
UpdateCacheOnlyFirst(b) ==
    /\ UNCHANGED << cycle_log, watch_file, interrupted, aux >>
    /\ b \in DOMAIN task
    /\ task[b].st = "update"
    /\ LET stock_code == bond_stock_map[b]
       IN  /\ stock_price_cache' =
                  IF stock_code \in DOMAIN stock_price_cache
                  THEN stock_price_cache
                  ELSE Put(stock_price_cache, stock_code,
                           Table.stock_price[stock_code])
           /\ task' = [task EXCEPT
                  ![b].st = "done",
                  ![b].result = Decide(b, stock_code, task[b].stock_change,
                                       Table.bond_change[b])]
    /\ UNCHANGED << pc, bond_stock_map, hold_list, all_bonds_data, opportunities,
                    scan_return, cache_at_fanout, cycle, hold_todo, bond_data,
                    hold_seen, report >>

\* check_single_pair from the cache update on: the row's stock price is stored
\* under the stock code, then the pulse and lag tests decide the result
UpdateCache(b) ==
    /\ UNCHANGED << cycle_log, watch_file, interrupted, aux >>
    /\ b \in DOMAIN task
    /\ task[b].st = "update"
    /\ LET stock_code == bond_stock_map[b]
       IN  /\ stock_price_cache' =
                  Put(stock_price_cache, stock_code, Table.stock_price[stock_code])
           /\ task' = [task EXCEPT
                  ![b].st = "done",
                  ![b].result = Decide(b, stock_code, task[b].stock_change,
                                       Table.bond_change[b])]
    /\ UNCHANGED << pc, bond_stock_map, hold_list, all_bonds_data, opportunities,
                    scan_return, cache_at_fanout, cycle, hold_todo, bond_data,
                    hold_seen, report >>

\* ------------------------------------------------------------------ holdings tracker
\* pnl = (current_price - entry_price) / entry_price
Pnl(current_price, entry_price) == << current_price - entry_price, entry_price >>

\* mutant: the stop-profit test excludes the boundary
StopProfitHitStrict(pnl) == pnl[1] * 1000 > stop_profit * pnl[2]

\* pnl >= CONFIG["stop_profit"]
StopProfitHit(pnl) == pnl[1] * 1000 >= stop_profit * pnl[2]

\* pnl <= CONFIG["stop_loss"]
StopLossHit(pnl) == pnl[1] * 1000 <= stop_loss * pnl[2]

\* the branch check_holdings takes for a pnl: the if, the elif, or neither
ExitKind(pnl) ==
    IF StopProfitHit(pnl) THEN "stop_profit"
    ELSE IF StopLossHit(pnl) THEN "stop_loss"
    ELSE "none"

\* what get_bond_min_data can return: <<>> (None, the retrieval failed) or the
\* close of the latest minute bar
BondMinData == { << >> } \cup { << p >> : p \in BarPrices }

\* list(self.hold_list.items()): the items in the order of the bond codes
HoldItems(holdings) ==
    LET keys == SortedSeq(DOMAIN holdings)
    IN  [i \in 1 .. Len(keys) |-> << keys[i], holdings[keys[i]] >>]

\* mutant: a retrieval that returned None ends the loop (return, not continue)
AfterNoDataReturn(todo) == << >>

\* the items left to the loop after a retrieval that returned None: continue
AfterNoData(todo) == Tail(todo)

\* one iteration of the for loop of check_holdings
CheckHolding ==
    /\ UNCHANGED << watch_file, interrupted, aux >>
    /\ pc = "holdings"
    /\ hold_todo # << >>
    /\ cycle_log' = Append(cycle_log, "get_bond_min_data")
    /\ LET bond_code == Head(hold_todo)[1]
           entry_price == Head(hold_todo)[2]
       IN  \E data \in BondMinData :
             /\ bond_data' = data
             /\ IF data = << >>
                THEN /\ hold_todo' = AfterNoData(hold_todo)
                     /\ hold_seen' = Put(hold_seen, bond_code, "skipped")
                     /\ report' = << >>
                     /\ UNCHANGED hold_list
                ELSE LET kind == ExitKind(Pnl(data[1], entry_price))
                     IN  /\ hold_todo' = Tail(hold_todo)
                         /\ hold_seen' = Put(hold_seen, bond_code, "evaluated")
                         /\ IF kind = "none"
                            THEN /\ report' = << >>
                                 /\ UNCHANGED hold_list
                            ELSE /\ report' = << [bond_code |-> bond_code,
                                                  kind |-> kind,
                                                  price |-> data[1]] >>
                                 /\ hold_list' = Del(hold_list, bond_code)
    /\ UNCHANGED << pc, bond_stock_map, stock_price_cache, all_bonds_data, task,
                    opportunities, scan_return, cache_at_fanout, cycle >>

\* the for loop is exhausted: check_holdings returns and run calls scan_market
HoldingsReturn ==
    /\ UNCHANGED << watch_file, interrupted, aux >>
    /\ pc = "holdings"
    /\ hold_todo = << >>
    /\ cycle_log' = Append(cycle_log, "check_holdings_return")
    /\ pc' = "fetch"
    /\ bond_data' = << >>
    /\ report' = << >>
    /\ hold_seen' = EmptyDict
    /\ UNCHANGED << bond_stock_map, hold_list, stock_price_cache, all_bonds_data,
                    task, opportunities, scan_return, cache_at_fanout, cycle,
                    hold_todo >>

\* ------------------------------------------------------------------ scan orchestrator
\* the stock codes of a watch-list
StocksOf(mapping) == { mapping[b] : b \in DOMAIN mapping }

\* the merged tables get_all_bonds_comparison can return for a watch-list: a
\* price for every stock and, for every watched bond, its change or no row
Snapshots(mapping) ==
    [ stock_price : [StocksOf(mapping) -> StockPrices],
      bond_change : [DOMAIN mapping -> BondChanges \cup {NoRow}] ]

\* the ways get_all_bonds_comparison returns None: ak.bond_zh_cov raised or
\* gave no rows, ak.bond_zh_hs_cov_spot raised or gave no rows, or the
\* selection of columns or the merge raised
FetchFailures ==
    {"basic_raised", "basic_empty", "spot_raised", "spot_empty", "merge_raised"}

\* mutant: the first provider table is asked for a second time
ProviderCallsRetrying(outcome) ==
    IF outcome \in {"basic_raised", "basic_empty"}
    THEN << "bond_zh_cov", "bond_zh_cov" >>
    ELSE << "bond_zh_cov", "bond_zh_cov", "bond_zh_hs_cov_spot" >>

\* the provider tables get_all_bonds_comparison has asked for, in order, when
\* it ends with an outcome: the second table is asked for after the first
\* has come back with rows
ProviderCalls(outcome) ==
    IF outcome \in {"basic_raised", "basic_empty"}
    THEN << "bond_zh_cov" >>
    ELSE << "bond_zh_cov", "bond_zh_hs_cov_spot" >>

\* mutant: the failure of the fetch is raised out of scan_market and run
AfterFailedFetchFatal == "crashed"

\* where run is after a scan whose fetch failed: scan_market has returned []
\* and run goes on to time.sleep
AfterFailedFetch == "sleep"

\* mutant: a scan whose fetch failed forgets the cached prices
CacheAfterFetchFailureCleared(cache) == EmptyDict

\* the cache after a scan whose fetch failed: scan_market returns before it
\* submits an evaluation
CacheAfterFetchFailure(cache) == cache

\* scan_market up to the check of the fetch: the snapshot is None (a provider
\* table empty, or the fetch raised) and the scan returns [], or it is a table
FetchSnapshot ==
    /\ UNCHANGED << watch_file, interrupted, aux >>
    /\ pc = "fetch"
    /\ \/ /\ \E outcome \in FetchFailures :
               cycle_log' = cycle_log \o << "scan_market" >> \o ProviderCalls(outcome)
          /\ all_bonds_data' = << >>
          /\ scan_return' = [kind |-> "list", value |-> << >>]
          /\ stock_price_cache' = CacheAfterFetchFailure(stock_price_cache)
          /\ pc' = AfterFailedFetch
       \/ /\ cycle_log' = cycle_log \o << "scan_market" >> \o ProviderCalls("merged")
          /\ \E table \in Snapshots(bond_stock_map) : all_bonds_data' = << table >>
          /\ pc' = "fanout"
          /\ UNCHANGED << scan_return, stock_price_cache >>
    /\ UNCHANGED << bond_stock_map, hold_list, task,
                    opportunities, cache_at_fanout, cycle, hold_todo, bond_data,
                    hold_seen, report >>

\* opportunities = [] and one check_single_pair submitted per watched pair
FanOut ==
    /\ UNCHANGED << cycle_log, watch_file, interrupted, aux >>
    /\ pc = "fanout"
    /\ opportunities' = << >>
    /\ task' = [b \in DOMAIN bond_stock_map |-> [IdleTask EXCEPT !.st = "queued"]]
    /\ cache_at_fanout' = stock_price_cache
    /\ cycle' = IF cycle < MaxCycles THEN cycle + 1 ELSE cycle
    /\ pc' = "collect"
    /\ UNCHANGED << bond_stock_map, hold_list, stock_price_cache, all_bonds_data,
                    scan_return, hold_todo, bond_data, hold_seen, report >>

\* mutant: the main thread takes the result of a future that is still running
FutureDoneOrRunning(t) == t.st \in {"done", "update"}

\* the futures as_completed yields: those whose evaluation has returned
FutureDone(t) == t.st = "done"

\* mutant: the exception of a failed evaluation is kept in its future
FutureRaisesOnFailure(t) == t.failed

\* whether future.result() raises: check_single_pair catches every Exception
\* of its body and returns None, so no future holds an exception
FutureRaises(t) == FALSE

\* as_completed yields a finished future; its result is appended if truthy.
\* An exception raised by future.result() would leave scan_market and run
Collect(b) ==
    /\ UNCHANGED << cycle_log, watch_file, interrupted, aux >>
    /\ pc = "collect"
    /\ b \in DOMAIN task
    /\ FutureDone(task[b])
    /\ IF FutureRaises(task[b])
       THEN /\ pc' = "crashed"
            /\ UNCHANGED << task, opportunities >>
       ELSE /\ task' = [task EXCEPT ![b].st = "collected"]
            /\ opportunities' = opportunities \o task[b].result
            /\ UNCHANGED pc
    /\ UNCHANGED << bond_stock_map, hold_list, stock_price_cache,
                    all_bonds_data, scan_return, cache_at_fanout, cycle,
                    hold_todo, bond_data, hold_seen, report >>

\* as_completed has yielded every future of the cycle
AllFuturesCollected == \A b \in DOMAIN task : task[b].st = "collected"

\* executor.shutdown(wait=True) at the end of the with block: no submitted
\* evaluation is queued or running
WorkersJoined == \A b \in DOMAIN task : task[b].st \notin {"queued", "update"}

\* mutant: the with block is left without waiting (a best-effort join)
ScanBarrierBestEffort == TRUE

\* what lets the main thread leave the with block of scan_market
ScanBarrier == AllFuturesCollected /\ WorkersJoined

\* the futures of a finished scan are dropped; one still queued or running stays
DropFutures(tasks) ==
    [b \in DOMAIN tasks |->
        IF tasks[b].st \in {"queued", "update"} THEN tasks[b] ELSE IdleTask]

\* mutant: the scan opens a position in every bond it found an Opportunity for
HoldingsAfterScanOpened(holdings, opps) ==
    [b \in DOMAIN holdings \cup { opps[i].bond_code : i \in 1 .. Len(opps) } |->
        IF \E i \in 1 .. Len(opps) : opps[i].bond_code = b
        THEN CHOOSE p \in BarPrices : \A q \in BarPrices : p <= q
        ELSE holdings[b]]

\* the holdings after a scan: scan_market logs its Opportunities and never
\* touches hold_list
HoldingsAfterScan(holdings, opps) == holdings

\* scan_market past the with block: the opportunities are logged and the
\* function falls off its end, which returns None
ScanReturn ==
    /\ UNCHANGED << cycle_log, watch_file, interrupted, aux >>
    /\ pc = "collect"
    /\ ScanBarrier
    /\ scan_return' = [kind |-> "None", value |-> << >>]
    /\ task' = DropFutures(task)
    /\ hold_list' = HoldingsAfterScan(hold_list, opportunities)
    /\ opportunities' = << >>
    /\ cache_at_fanout' = EmptyDict
    /\ pc' = "sleep"
    /\ UNCHANGED << bond_stock_map, stock_price_cache, all_bonds_data,
                    cycle, hold_todo, bond_data, hold_seen, report >>

\* ------------------------------------------------------------------ cycle scheduler
\* the wall-clock times datetime.now() is sampled at: <<hour, minute>>
Times == (0 .. 23) \X {0, 29, 30, 31, 59}

is_trading_time(now) ==
    LET hour == now[1]
        minute == now[2]
    IN  \/ (hour = 9 /\ minute >= 30)
        \/ hour = 10
        \/ (hour = 11 /\ minute <= 30)
        \/ (hour >= 13 /\ hour < 20)

\* what the watch-list file can be: absent, not JSON, JSON that is not a list
\* of objects (a non-empty list of numbers or strings, a non-empty object),
\* or a list of objects
WatchFiles == {"missing", "bad_json", "bad_shape", "json"}

\* load_data_from_json returns [] for a file that is absent or cannot be
\* parsed (its except clauses), and the parsed value otherwise
LoadReturnsEmpty(file) == file \in {"missing", "bad_json"}

\* the for loop of build_mapping calls item.get on every item of the parsed
\* value, outside any try: an item that is no object raises AttributeError
BuildMappingRaises(file) == file = "bad_shape"

\* run up to the loop: the watch-list is loaded; an empty mapping ends run,
\* and an exception of build_mapping leaves run, which has no handler for it
LoadWatchList ==
    /\ UNCHANGED << cycle_log, interrupted, aux >>
    /\ pc = "start"
    /\ \E file \in WatchFiles, mapping \in WatchLists :
         /\ (LoadReturnsEmpty(file) \/ BuildMappingRaises(file)) => DOMAIN mapping = {}
         /\ watch_file' = file
         /\ bond_stock_map' = mapping
         /\ pc' = IF BuildMappingRaises(file) THEN "crashed"
                  ELSE IF DOMAIN mapping = {} THEN "exited" ELSE "loop"
    /\ UNCHANGED << hold_list, stock_price_cache, all_bonds_data, task,
                    opportunities, scan_return, cache_at_fanout, cycle,
                    hold_todo, bond_data, hold_seen, report >>

\* mutant: a cycle in trading time goes straight to scan_market
CycleInSessionScanOnly ==
    /\ UNCHANGED << watch_file, interrupted, aux >>
    /\ pc = "loop"
    /\ \E now \in Times : is_trading_time(now)
    /\ pc' = "fetch"
    /\ cycle_log' = << "InSession" >>
    /\ UNCHANGED << bond_stock_map, hold_list, stock_price_cache, all_bonds_data,
                    task, opportunities, scan_return, cache_at_fanout, cycle,
                    hold_todo, hold_seen, bond_data, report >>

\* a cycle in trading time: check_holdings is called; with no holding it
\* returns at once and scan_market is called
CycleInSession ==
    /\ UNCHANGED << watch_file, interrupted, aux >>
    /\ pc = "loop"
    /\ \E now \in Times : is_trading_time(now)
    /\ IF DOMAIN hold_list = {}
       THEN /\ pc' = "fetch"
            /\ cycle_log' = << "InSession", "check_holdings", "check_holdings_return" >>
            /\ UNCHANGED << hold_todo, hold_seen >>
       ELSE /\ pc' = "holdings"
            /\ cycle_log' = << "InSession", "check_holdings" >>
            /\ hold_todo' = HoldItems(hold_list)
            /\ hold_seen' = [b \in DOMAIN hold_list |-> "pending"]
    /\ UNCHANGED << bond_stock_map, hold_list, stock_price_cache, all_bonds_data,
                    task, opportunities, scan_return, cache_at_fanout, cycle,
                    bond_data, report >>

\* a cycle outside trading time: only the heartbeat is logged
CycleOutOfSession ==
    /\ UNCHANGED << watch_file, interrupted, aux >>
    /\ pc = "loop"
    /\ \E now \in Times : ~is_trading_time(now)
    /\ cycle_log' = << "OutOfSession" >>
    /\ pc' = "sleep"
    /\ UNCHANGED << bond_stock_map, hold_list, stock_price_cache, all_bonds_data,
                    task, opportunities, scan_return, cache_at_fanout, cycle,
                    hold_todo, bond_data, hold_seen, report >>

\* time.sleep(check_interval) is over: the next cycle starts
Sleep ==
    /\ UNCHANGED << watch_file, interrupted, aux >>
    /\ pc = "sleep"
    /\ pc' = "loop"
    /\ cycle_log' = << >>
    /\ UNCHANGED << bond_stock_map, hold_list, stock_price_cache, all_bonds_data,
                    task, opportunities, scan_return, cache_at_fanout, cycle,
                    hold_todo, bond_data, hold_seen, report >>

\* Ctrl+C in the main thread.  Inside the with block of scan_market the
\* exception first runs executor.shutdown(wait=True); elsewhere it reaches the
\* except clause of run at once.  A Ctrl+C that arrives while shutdown is
\* joining the workers is raised out of the join, and out of the with block
KeyboardInterrupt ==
    /\ UNCHANGED << cycle_log, watch_file, aux >>
    /\ pc \in {"loop", "holdings", "fetch", "fanout", "collect", "sleep",
               "interrupt_join"}
    /\ interrupted' = TRUE
    /\ pc' = IF pc = "collect" THEN "interrupt_join" ELSE "stopped"
    /\ UNCHANGED << bond_stock_map, hold_list, stock_price_cache, all_bonds_data,
                    task, opportunities, scan_return, cache_at_fanout, cycle,
                    hold_todo, bond_data, hold_seen, report >>

\* the shutdown of an interrupted scan has joined the workers: run prints the
\* number of holdings and returns
InterruptJoin ==
    /\ UNCHANGED << cycle_log, watch_file, interrupted, aux >>
    /\ pc = "interrupt_join"
    /\ WorkersJoined
    /\ pc' = "stopped"
    /\ UNCHANGED << bond_stock_map, hold_list, stock_price_cache, all_bonds_data,
                    task, opportunities, scan_return, cache_at_fanout, cycle,
                    hold_todo, bond_data, hold_seen, report >>

\* ------------------------------------------------------------------ session classification
\* every wall-clock time of a day: <<hour, minute>>
DayTimes == (0 .. 23) \X (0 .. 59)

\* what run calls the cycle that starts at a time
Classify(now) == IF is_trading_time(now) THEN "InSession" ELSE "OutOfSession"

\* now = datetime.now() at the top of the loop, and the classification of now
ReadClock ==
    /\ \E now \in DayTimes :
         /\ clock_now' = now
         /\ session_state' = Classify(now)
    /\ UNCHANGED << main, min_pc, min_attempt, min_responses, min_slept,
                    min_result >>

\* ------------------------------------------------------------------ minute-bar retrieval
retry_times == 3
retry_delay == 2

\* what one call of ak.stock_zh_a_hist_min_em can give: a frame of at least
\* two bars (data holds the last two closes), a frame of fewer than two bars,
\* None, or an exception whose message holds "Connection aborted", holds
\* "RemoteDisconnected", or holds neither
MinResponses ==
    { [kind |-> "ok", data |-> d] : d \in BarPrices \X BarPrices }
    \cup { [kind |-> k, data |-> << >>] :
             k \in {"short", "none", "aborted", "disconnected", "other"} }

\* mutant: every failed attempt is followed by another one
RecoverableAny(r) == r.kind # "ok"

\* the responses after which the for loop goes on to the next attempt: too
\* few samples (the if is not taken) and the two connection errors (continue)
Recoverable(r) == r.kind \in {"short", "none", "aborted", "disconnected"}

\* get_stock_min_data is called
MinStart ==
    /\ min_pc = "idle"
    /\ min_attempt' = 0
    /\ min_pc' = IF retry_times > 0 THEN "call" ELSE "done"
    /\ UNCHANGED << main, clock_now, session_state, min_responses, min_slept,
                    min_result >>

\* one attempt: the provider is called; bars are returned at once, an error
\* that is not recoverable returns None at once, and a recoverable failure
\* sleeps if an attempt is left and lets the loop run out otherwise
MinCall ==
    /\ min_pc = "call"
    /\ \E r \in MinResponses :
         /\ min_responses' = Append(min_responses, r)
         /\ IF r.kind = "ok"
            THEN /\ min_result' = << r.data >>
                 /\ min_pc' = "done"
            ELSE /\ min_result' = << >>
                 /\ min_pc' = IF ~Recoverable(r) THEN "done"
                              ELSE IF min_attempt < retry_times - 1 THEN "sleep"
                              ELSE "done"
    /\ UNCHANGED << main, clock_now, session_state, min_attempt, min_slept >>

\* time.sleep(retry_delay) is over and the loop takes the next attempt
MinSleepOver ==
    /\ min_pc = "sleep"
    /\ min_slept' = min_slept + retry_delay
    /\ min_attempt' = min_attempt + 1
    /\ min_pc' = "call"
    /\ UNCHANGED << main, clock_now, session_state, min_responses, min_result >>

\* nothing has been classified and no retrieval is under way
AuxIdle ==
    /\ clock_now = << 0, 0 >>
    /\ session_state = "unset"
    /\ min_pc = "idle"
    /\ min_attempt = 0
    /\ min_responses = << >>
    /\ min_slept = 0
    /\ min_result = << >>

\* ------------------------------------------------------------------ specification
\* the holdings are opened outside the engine, before it runs
HoldingsAtStart == [b \in HoldBonds |-> 1000]

\* the monitor after BondStockMonitor() and before run loads the watch-list
MonitorAtStart ==
    /\ pc = "start"
    /\ bond_stock_map = EmptyDict
    /\ hold_list = HoldingsAtStart
    /\ stock_price_cache = EmptyDict
    /\ all_bonds_data = << >>
    /\ task = EmptyDict
    /\ opportunities = << >>
    /\ scan_return = [kind |-> "unset", value |-> << >>]
    /\ cache_at_fanout = EmptyDict
    /\ cycle = 0
    /\ hold_todo = << >>
    /\ bond_data = << >>
    /\ hold_seen = EmptyDict
    /\ report = << >>
    /\ cycle_log = << >>
    /\ watch_file = "unread"
    /\ interrupted = FALSE

Init == MonitorAtStart /\ AuxIdle

Next ==
    \/ LoadWatchList
    \/ CycleInSession
    \/ CycleOutOfSession
    \/ CheckHolding
    \/ HoldingsReturn
    \/ FetchSnapshot
    \/ FanOut
    \/ \E b \in Bonds : StartPair(b)
    \/ \E b \in Bonds : UpdateCache(b)
    \/ \E b \in Bonds : Collect(b)
    \/ ScanReturn
    \/ Sleep
    \/ KeyboardInterrupt
    \/ InterruptJoin

Spec == Init /\ [][Next]_vars

\* the first scan of a watch-list of PoolBonds pairs, each on an underlying
\* of its own, from the moment every evaluation has been submitted and the
\* first PoolStarted of them have read the cache
PoolWatchList == [b \in 1 .. PoolBonds |-> b]

PoolTable ==
    [ stock_price |-> [s \in 1 .. PoolBonds |-> CHOOSE p \in StockPrices : TRUE],
      bond_change |-> [b \in 1 .. PoolBonds |-> CHOOSE c \in BondChanges : TRUE] ]

InitPool ==
    /\ pc = "collect"
    /\ bond_stock_map = PoolWatchList
    /\ hold_list = EmptyDict
    /\ stock_price_cache = EmptyDict
    /\ all_bonds_data = << PoolTable >>
    /\ task = [b \in 1 .. PoolBonds |->
                 IF b <= PoolStarted
                 THEN [IdleTask EXCEPT
                         !.st = "update",
                         !.previous_price = ObservedPrevious(EmptyDict, b),
                         !.stock_change =
                             ComputeChange(EmptyDict, b, PoolTable.stock_price[b])]
                 ELSE [IdleTask EXCEPT !.st = "queued"]]
    /\ opportunities = << >>
    /\ scan_return = [kind |-> "unset", value |-> << >>]
    /\ cache_at_fanout = EmptyDict
    /\ cycle = 1
    /\ hold_todo = << >>
    /\ bond_data = << >>
    /\ hold_seen = EmptyDict
    /\ report = << >>
    /\ cycle_log = << "InSession", "check_holdings", "check_holdings_return",
                      "scan_market" >> \o ProviderCalls("merged")
    /\ watch_file = "json"
    /\ interrupted = FALSE
    /\ AuxIdle

\* the worker threads of the pool
NextPool ==
    \/ \E b \in 1 .. PoolBonds : StartPair(b)
    \/ \E b \in 1 .. PoolBonds : UpdateCache(b)

SpecPool == InitPool /\ [][NextPool]_vars

\* the classification of wall-clock times, on its own
NextClock == ReadClock

SpecClock == Init /\ [][NextClock]_vars

\* one minute-bar retrieval, on its own.  Every provider call returns or
\* raises and every time.sleep returns, so a retrieval that can take a step
\* takes one
NextRetry == MinStart \/ MinCall \/ MinSleepOver

SpecRetry == Init /\ [][NextRetry]_vars /\ WF_vars(NextRetry)

TypeOK ==
    /\ pc \in {"start", "exited", "crashed", "loop", "holdings", "fetch",
               "fanout", "collect", "sleep", "interrupt_join", "stopped"}
    /\ bond_stock_map \in WatchLists
    /\ DOMAIN hold_list \subseteq HoldBonds
    /\ DOMAIN stock_price_cache \subseteq Bonds
    /\ \A s \in DOMAIN stock_price_cache : stock_price_cache[s] \in StockPrices
    /\ cycle \in 0 .. MaxCycles

\* ------------------------------------------------------------------ claims: vocabulary
\* the evaluation of b has ended (its future is done or already collected)
Finished(b) == task[b].st \in {"done", "collected"}

\* the evaluation of b has read the cache: it found a row and did not raise
Observed(b) ==
    \/ task[b].st = "update"
    \/ Finished(b) /\ HasRow(b) /\ ~task[b].failed

\* a scan is between its fan-out and its return (or its interrupted join)
InScan == pc \in {"collect", "interrupt_join"}

\* two changes are the same number
SameChange(c1, c2) == c1[1] * c2[2] = c2[1] * c1[2]

\* the stock price the snapshot shows for the stock of bond b
RowStockPrice(b) == Table.stock_price[bond_stock_map[b]]

C2_SharedUnderlyingSamePrevious ==
    InScan =>
        \A b1, b2 \in DOMAIN task :
            ( /\ Observed(b1) /\ Observed(b2)
              /\ bond_stock_map[b1] = bond_stock_map[b2] ) =>
                /\ ( (task[b1].previous_price # 0 /\ task[b2].previous_price # 0)
                        => task[b1].previous_price = task[b2].previous_price )
                /\ SameChange(task[b1].stock_change, task[b2].stock_change)

\* ------------------------------------------------------------------ C3
\* the pairs of this cycle that read and update the cache
Evaluates(b) == HasRow(b) /\ ~task[b].failed

RECURSIVE SeqCacheAfter(_)
\* the cache after the pairs 1 .. k were evaluated one after the other in
\* watch-list order, starting from the cache at the fan-out
SeqCacheAfter(k) ==
    IF k = 0 THEN cache_at_fanout
    ELSE IF Evaluates(k)
         THEN Put(SeqCacheAfter(k - 1), bond_stock_map[k], RowStockPrice(k))
         ELSE SeqCacheAfter(k - 1)

\* the change pair b computes in that sequential run
SeqChange(b) ==
    ComputeChange(SeqCacheAfter(b - 1), bond_stock_map[b], RowStockPrice(b))

\* C3: when all evaluations of a cycle have ended, the cache and every pair's
\* computed stock change are those of a sequential evaluation of the pairs in
\* watch-list order, whatever the interleaving was.
C3_ConcurrentEqualsSequential ==
    (InScan /\ \A b \in DOMAIN task : Finished(b)) =>
        /\ stock_price_cache = SeqCacheAfter(Cardinality(DOMAIN task))
        /\ \A b \in DOMAIN task :
              Evaluates(b) => SameChange(task[b].stock_change, SeqChange(b))

\* ------------------------------------------------------------------ C4
\* C4: a pair that finds its stock code absent from the cache computes a stock
\* change of exactly 0, whatever the price, and once its evaluation has ended
\* the cache holds the observed price under that stock code.
C4_FirstObservationZeroAndStored ==
    InScan =>
        \A b \in DOMAIN task :
            (Observed(b) /\ task[b].previous_price = 0) =>
                /\ task[b].stock_change[1] = 0
                /\ Finished(b) =>
                      /\ bond_stock_map[b] \in DOMAIN stock_price_cache
                      /\ stock_price_cache[bond_stock_map[b]] = RowStockPrice(b)

\* a first observation at the highest price has ended and the price is cached
C4_Witness ==
    /\ InScan
    /\ \E b \in DOMAIN task :
        /\ Finished(b) /\ Observed(b)
        /\ task[b].previous_price = 0
        /\ bond_stock_map[b] \notin DOMAIN cache_at_fanout
        /\ RowStockPrice(b) = 206
        /\ stock_price_cache[bond_stock_map[b]] = 206

\* ------------------------------------------------------------------ C5
\* C5: the step of a pair that found the price p0 under its stock code and
\* whose row shows the stock price p1 leaves the computed change at
\* (p1 - p0) / p0 and the cache entry at p1, whether or not the pair passes
\* the pulse test or the lag test.
C5_ChangeAndUnconditionalStore ==
    [][ \A b \in DOMAIN task :
          ( /\ task[b].st = "update"
            /\ b \in DOMAIN task'
            /\ task'[b].st = "done"
            /\ task[b].previous_price # 0 ) =>
              /\ task'[b].stock_change =
                    << RowStockPrice(b) - task[b].previous_price,
                       task[b].previous_price >>
              /\ bond_stock_map[b] \in DOMAIN stock_price_cache'
              /\ stock_price_cache'[bond_stock_map[b]] = RowStockPrice(b)
      ]_vars

\* a pair found 203 cached, saw 200 (a negative change, so no pulse and no
\* Opportunity), and the cache holds 200
C5_Witness ==
    /\ InScan
    /\ \E b \in DOMAIN task :
        /\ Finished(b) /\ Observed(b)
        /\ task[b].previous_price = 203
        /\ RowStockPrice(b) = 200
        /\ task[b].result = << >>
        /\ stock_price_cache[bond_stock_map[b]] = 200

C7_ExitRules ==
    [][ ( /\ pc = "holdings"
          /\ hold_todo # << >>
          /\ hold_todo' # hold_todo
          /\ bond_data' # << >> ) =>
            LET bond_code == Head(hold_todo)[1]
                entry_price == Head(hold_todo)[2]
                current_price == bond_data'[1]
                gain == (current_price - entry_price) * 1000
            IN  IF gain >= stop_profit * entry_price
                THEN /\ bond_code \notin DOMAIN hold_list'
                     /\ report' = << [bond_code |-> bond_code,
                                      kind |-> "stop_profit",
                                      price |-> current_price] >>
                ELSE IF gain <= stop_loss * entry_price
                THEN /\ bond_code \notin DOMAIN hold_list'
                     /\ report' = << [bond_code |-> bond_code,
                                      kind |-> "stop_loss",
                                      price |-> current_price] >>
                ELSE /\ bond_code \in DOMAIN hold_list'
                     /\ hold_list'[bond_code] = entry_price
                     /\ report' = << >>
      ]_vars

\* a holding was just closed as stop-profit at a pnl of exactly stop_profit
\* while another holding is still open
C7_Witness ==
    /\ pc = "holdings"
    /\ report # << >>
    /\ report[1].kind = "stop_profit"
    /\ (report[1].price - HoldingsAtStart[report[1].bond_code]) * 1000
          = stop_profit * HoldingsAtStart[report[1].bond_code]
    /\ report[1].bond_code \notin DOMAIN hold_list
    /\ DOMAIN hold_list # {}

\* ------------------------------------------------------------------ C8
\* C8: when the loop of check_holdings is over, every holding that was open
\* at the start of the call was either evaluated against the exit rules or
\* skipped because its own retrieval failed, and a skipped holding is still
\* open.
C8_RetrievalFailureIsolated ==
    (pc = "holdings") =>
        /\ \A b \in DOMAIN hold_seen :
              hold_seen[b] = "skipped" => b \in DOMAIN hold_list
        /\ hold_todo = << >> =>
              \A b \in DOMAIN hold_seen : hold_seen[b] \in {"skipped", "evaluated"}

\* the loop is over, the retrieval failed for the first holding and the second
\* one was evaluated and closed
C8_Witness ==
    /\ pc = "holdings"
    /\ hold_todo = << >>
    /\ DOMAIN hold_seen = {1, 2}
    /\ hold_seen[1] = "skipped"
    /\ hold_seen[2] = "evaluated"
    /\ DOMAIN hold_list = {1}

\* ------------------------------------------------------------------ C9
\* C9: a scan whose snapshot was fetched evaluates every watched pair once and
\* returns to its caller the Opportunities found: the list it returns holds
\* exactly the non-empty results of the evaluations.
C9_ScanReturnsOpportunities ==
    [][ (pc = "collect" /\ pc' = "sleep") =>
            /\ \A b \in DOMAIN task : task[b].st = "collected"
            /\ scan_return'.kind = "list"
            /\ { scan_return'.value[i] : i \in 1 .. Len(scan_return'.value) }
                 = { task[b].result[1] :
                        b \in { c \in DOMAIN task : task[c].result # << >> } }
      ]_vars

\* ------------------------------------------------------------------ C10
\* C10: whenever the main thread is outside the with block of scan_market
\* (scan_market has returned: the scheduler sleeps, or has started a later
\* cycle), no pair evaluation is queued or running.
C10_BarrierJoin ==
    (pc \in {"sleep", "loop", "holdings", "fetch", "fanout"}) =>
        \A b \in DOMAIN task : task[b].st \notin {"queued", "update"}

\* the second scan is about to fan out after a first one whose evaluations
\* updated the cache
C10_Witness ==
    /\ pc = "fanout"
    /\ cycle = 1
    /\ scan_return.kind = "None"
    /\ DOMAIN stock_price_cache # {}

\* C11: at every moment of a scan at most max_workers pair evaluations are
\* executing, however many pairs the watch-list holds
C11_AtMostMaxWorkersRunning == Cardinality(Running) <= max_workers

\* max_workers evaluations are executing while a submitted one still waits
C11_Witness ==
    /\ Cardinality(Running) = max_workers
    /\ \E b \in DOMAIN task : task[b].st = "queued"
    /\ Cardinality(DOMAIN task) > max_workers

\* ------------------------------------------------------------------ C12
\* C12: a pair whose evaluation failed contributes no Opportunity, the scan
\* goes on while a pair has failed (it does not raise), and the scan returns
\* only after every pair of the watch-list has been evaluated and collected.
C12_PairFailureIsolated ==
    /\ [](\A b \in DOMAIN task :
            task[b].failed =>
               /\ task[b].result = << >>
               /\ \A i \in 1 .. Len(opportunities) : opportunities[i].bond_code # b
               /\ pc \in {"collect", "interrupt_join", "stopped"})
    /\ [][ (pc = "collect" /\ pc' = "sleep") =>
              /\ DOMAIN task = DOMAIN bond_stock_map
              /\ \A b \in DOMAIN task : task[b].st = "collected"
        ]_vars

\* the evaluation of one pair failed and was collected, and the other pair of
\* the same scan was evaluated and its Opportunity collected
C12_Witness ==
    /\ pc = "collect"
    /\ \E b, c \in DOMAIN task :
         /\ task[b].failed
         /\ task[b].st = "collected"
         /\ task[c].st = "collected"
         /\ task[c].result # << >>
         /\ Len(opportunities) = 1
         /\ opportunities[1].bond_code = c

\* ------------------------------------------------------------------ C13
\* C13: the step of a scan whose snapshot fetch failed (a provider table
\* empty or unavailable, or the fetch raising) returns the empty list, raises
\* nothing (the scheduler goes on to its sleep), evaluates no pair and leaves
\* the price-change cache as it was before the call.
C13_FetchFailureSkipsScan ==
    [][ (pc = "fetch" /\ pc' \notin {"fanout", "stopped"}) =>
            /\ pc' = "sleep"
            /\ scan_return' = [kind |-> "list", value |-> << >>]
            /\ stock_price_cache' = stock_price_cache
            /\ task' = task
            /\ \A b \in DOMAIN task' : task'[b].st = "idle"
            /\ opportunities' = << >>
      ]_vars

\* a scan has ended on a failed fetch while the cache holds the prices of an
\* earlier scan
C13_Witness ==
    /\ pc = "sleep"
    /\ cycle >= 1
    /\ all_bonds_data = << >>
    /\ scan_return = [kind |-> "list", value |-> << >>]
    /\ DOMAIN stock_price_cache # {}
    /\ Len(cycle_log) >= 1
    /\ cycle_log[Len(cycle_log)] = "bond_zh_hs_cov_spot"

\* ------------------------------------------------------------------ C14
\* the first position of an event in the log of the cycle, 0 if it is absent
Pos(log, e) ==
    IF \E i \in 1 .. Len(log) : log[i] = e
    THEN CHOOSE i \in 1 .. Len(log) :
            log[i] = e /\ \A j \in 1 .. (i - 1) : log[j] # e
    ELSE 0

\* how often an event is in the log of the cycle
Count(log, e) == Cardinality({ i \in 1 .. Len(log) : log[i] = e })

\* the events that are calls for market data
MarketCalls == {"get_bond_min_data", "bond_zh_cov", "bond_zh_hs_cov_spot"}

\* run is inside a cycle: past the classification, up to the end of the sleep
InCycle == pc \in {"holdings", "fetch", "fanout", "collect", "sleep"}

\* C14: a cycle is classified once; in an InSession cycle check_holdings is
\* called and has returned, with all its minute-bar retrievals, before
\* scan_market starts, and both have run when the scheduler sleeps; in an
\* OutOfSession cycle no market-data call is made and neither holdings nor
\* cache change; in both the scheduler sleeps, and the sleep leads to the
\* classification of the next cycle.
C14_CycleOrder ==
    /\ [](InCycle =>
            /\ Len(cycle_log) >= 1
            /\ cycle_log[1] \in {"InSession", "OutOfSession"}
            /\ Count(cycle_log, "InSession") + Count(cycle_log, "OutOfSession") = 1)
    /\ []((InCycle /\ cycle_log[1] = "InSession") =>
            /\ Count(cycle_log, "check_holdings") = 1
            /\ Pos(cycle_log, "check_holdings") = 2
            /\ (pc = "holdings") = (Pos(cycle_log, "check_holdings_return") = 0)
            /\ (pc = "fetch") =>
                   /\ hold_todo = << >>
                   /\ cycle_log[Len(cycle_log)] = "check_holdings_return"
            /\ (pc \in {"fanout", "collect", "sleep"}) =>
                   /\ Count(cycle_log, "scan_market") = 1
                   /\ Pos(cycle_log, "check_holdings_return")
                         < Pos(cycle_log, "scan_market")
                   /\ \A i \in 1 .. Len(cycle_log) :
                         cycle_log[i] = "get_bond_min_data" =>
                            i < Pos(cycle_log, "check_holdings_return"))
    /\ []((InCycle /\ cycle_log[1] = "OutOfSession") =>
            /\ pc = "sleep"
            /\ \A i \in 1 .. Len(cycle_log) : cycle_log[i] \notin MarketCalls
            /\ Count(cycle_log, "check_holdings") = 0
            /\ Count(cycle_log, "scan_market") = 0)
    /\ [][ (pc = "loop" /\ cycle_log' = << "OutOfSession" >>) =>
              /\ hold_list' = hold_list
              /\ stock_price_cache' = stock_price_cache
              /\ pc' = "sleep"
        ]_vars
    /\ [][ (pc = "sleep" /\ pc' # "stopped") => (pc' = "loop" /\ cycle_log' = << >>)
        ]_vars
    /\ [][ (pc' = "loop") => pc \in {"start", "sleep", "loop"} ]_vars

\* an OutOfSession cycle sleeps after an earlier InSession cycle whose scan
\* filled the cache, with a holding still open
C14_Witness ==
    /\ pc = "sleep"
    /\ cycle_log = << "OutOfSession" >>
    /\ cycle >= 1
    /\ DOMAIN stock_price_cache # {}
    /\ DOMAIN hold_list # {}

\* ------------------------------------------------------------------ C15
\* a time as minutes since midnight
MinuteOfDay(now) == now[1] * 60 + now[2]

\* the trading windows 09:30-11:30 and 13:00-15:00
InTradingWindows(now) ==
    \/ MinuteOfDay(now) >= 9 * 60 + 30 /\ MinuteOfDay(now) <= 11 * 60 + 30
    \/ MinuteOfDay(now) >= 13 * 60 /\ MinuteOfDay(now) <= 15 * 60

\* C15: a cycle is classified InSession exactly when the wall-clock time lies
\* in the window 09:30-11:30 or in the window 13:00-15:00, and OutOfSession
\* at every other time of day.
C15_SessionWindows ==
    (session_state # "unset") =>
        (session_state = IF InTradingWindows(clock_now)
                         THEN "InSession" ELSE "OutOfSession")

\* ------------------------------------------------------------------ C16
\* C16: when the watch-list source is missing, malformed or yields an empty
\* mapping, run reports and returns without entering the loop: nothing is
\* fetched, checked or slept, and no exception escapes.
C16_BadWatchListExitsCleanly ==
    (/\ pc # "start"
     /\ \/ watch_file \in {"missing", "bad_json", "bad_shape"}
        \/ DOMAIN bond_stock_map = {}) =>
        /\ pc = "exited"
        /\ cycle_log = << >>
        /\ cycle = 0

\* ------------------------------------------------------------------ C17
\* run is inside the monitoring loop
InLoop == pc \in {"loop", "holdings", "fetch", "fanout", "collect", "sleep"}

\* a step of the loop or of a worker that is not an interrupt
LoopStep ==
    \/ CycleInSession
    \/ CycleOutOfSession
    \/ CheckHolding
    \/ HoldingsReturn
    \/ FetchSnapshot
    \/ FanOut
    \/ \E b \in Bonds : StartPair(b)
    \/ \E b \in Bonds : UpdateCache(b)
    \/ \E b \in Bonds : Collect(b)
    \/ ScanReturn
    \/ Sleep

\* C17: once the loop is entered it is left only by an external interrupt:
\* a failed snapshot fetch leads to the sleep, a failed minute-bar retrieval
\* or pair evaluation leaves the scheduler where it is, and in every state of
\* the loop a step other than an interrupt can be taken.
C17_OnlyInterruptStopsLoop ==
    /\ [][ InLoop =>
              \/ pc' \in {"loop", "holdings", "fetch", "fanout", "collect", "sleep"}
              \/ /\ pc' \in {"stopped", "interrupt_join"}
                 /\ interrupted'
        ]_vars
    /\ []((pc \in {"stopped", "interrupt_join"}) => interrupted)
    /\ [][ (pc = "fetch" /\ all_bonds_data' = << >> /\ ~interrupted') =>
              pc' = "sleep" ]_vars
    /\ [][ (pc = "holdings" /\ hold_todo # << >> /\ bond_data' = << >>
              /\ ~interrupted') =>
              (pc' = "holdings" /\ Len(hold_todo') < Len(hold_todo)) ]_vars
    /\ [][ (pc = "collect" /\ ~interrupted'
              /\ \E b \in DOMAIN task : task'[b].failed /\ ~task[b].failed) =>
              pc' = "collect" ]_vars
    /\ [](InLoop => ENABLED LoopStep)

\* the next cycle starts after a cycle whose snapshot fetch failed, with a
\* holding whose minute bars could not be retrieved still open
C17_Witness ==
    /\ pc = "loop"
    /\ ~interrupted
    /\ cycle >= 1
    /\ all_bonds_data = << >>
    /\ DOMAIN hold_list = HoldBonds

\* ------------------------------------------------------------------ C18
\* C18: an interrupt that arrives during a scan stops the loop only after the
\* barrier join of the cycle: when run reports the holdings and returns, no
\* pair evaluation is queued, running, or between its read and its write of
\* the price-change cache.
C18_StopOnlyAfterJoin ==
    (pc = "stopped") =>
        \A b \in DOMAIN task : task[b].st \notin {"queued", "update"}

\* ------------------------------------------------------------------ C19
\* the failures after which another attempt is due: a transport error of one
\* of the two recoverable kinds, or a response with too few samples
RetriedKinds == {"short", "none", "aborted", "disconnected"}

\* C19: a minute-bar retrieval ends, after at most retry_times provider
\* calls: every call but the last failed recoverably and was followed by the
\* fixed delay; bars end the retrieval with these bars, any other error ends
\* it at once with None, and a recoverable failure ends it with None only
\* when it was the retry_times-th call.
C19_RetryBounded ==
    /\ [](Len(min_responses) <= retry_times)
    /\ [](Len(min_responses) = min_attempt + (IF min_pc \in {"idle", "call"} THEN 0 ELSE 1))
    /\ []((min_pc = "done") =>
            LET n == Len(min_responses)
            IN  /\ n >= 1
                /\ \A i \in 1 .. (n - 1) : min_responses[i].kind \in RetriedKinds
                /\ min_slept = retry_delay * (n - 1)
                /\ (min_responses[n].kind = "ok") =>
                       min_result = << min_responses[n].data >>
                /\ (min_responses[n].kind = "other") => min_result = << >>
                /\ (min_responses[n].kind \in RetriedKinds) =>
                       (n = retry_times /\ min_result = << >>))
    /\ <>(min_pc = "done")

\* a retrieval has ended in failure after retry_times calls: too few samples
\* first and a connection abort last, with a delay after all but the last
C19_Witness ==
    /\ min_pc = "done"
    /\ Len(min_responses) = retry_times
    /\ min_responses[1].kind = "short"
    /\ min_responses[retry_times].kind = "aborted"
    /\ min_result = << >>
    /\ min_slept = retry_delay * (retry_times - 1)

\* ------------------------------------------------------------------ C20
\* C20: in a cycle each provider table is asked for at most once, and exactly
\* once when the scan fans out; no evaluation has started while the fetch is
\* still to come; a step of a worker asks for no table and leaves the snapshot
\* alone; and the snapshot is replaced only when no evaluation is queued or
\* running.
C20_SnapshotFetchedOnce ==
    /\ [](InCycle =>
            /\ Count(cycle_log, "bond_zh_cov") <= 1
            /\ Count(cycle_log, "bond_zh_hs_cov_spot") <= 1)
    /\ []((pc \in {"fanout", "collect", "interrupt_join"}) =>
            /\ all_bonds_data # << >>
            /\ Count(cycle_log, "bond_zh_cov") = 1
            /\ Count(cycle_log, "bond_zh_hs_cov_spot") = 1)
    /\ []((pc \in {"loop", "holdings", "fetch", "fanout"}) =>
            \A b \in DOMAIN task : task[b].st = "idle")
    /\ [](\A b \in DOMAIN task :
            task[b].st # "idle" =>
               /\ all_bonds_data # << >>
               /\ Pos(cycle_log, "bond_zh_cov") > 0
               /\ Pos(cycle_log, "bond_zh_cov") < Pos(cycle_log, "bond_zh_hs_cov_spot"))
    /\ [][ (\E b \in DOMAIN task : task[b].st \in {"queued", "update"}) =>
              /\ all_bonds_data' = all_bonds_data
              /\ cycle_log' = cycle_log
        ]_vars

\* in the second scan one evaluation has ended and the other is between its
\* read and its write of the cache, both on the snapshot of this cycle
C20_Witness ==
    /\ pc = "collect"
    /\ cycle >= 2
    /\ Count(cycle_log, "bond_zh_cov") = 1
    /\ \E b, c \in DOMAIN task :
         /\ task[b].st = "update"
         /\ task[c].st = "collected"

\* ------------------------------------------------------------------ C21
\* C21: the collection of Opportunities into the result list begins only
\* after all workers of the cycle have finished: no Opportunity is in the
\* list while an evaluation of the same cycle is queued or running.
C21_CollectionAfterAllWorkers ==
    (pc = "collect" /\ Len(opportunities) > 0) =>
        \A b \in DOMAIN task : task[b].st \notin {"queued", "update"}

\* the results of the futures collected so far that are Opportunities
CollectedResults ==
    { task[b].result[1] :
        b \in { c \in DOMAIN task :
                  task[c].st = "collected" /\ task[c].result # << >> } }

\* C21 as amended: a result is collected only after its own evaluation has
\* returned, and unchanged; while the scan collects, the list holds exactly
\* the Opportunities of the futures collected so far; and the scan leaves the
\* with block, to log the list, only when no evaluation is queued or running.
C21_CollectedAsCompleted ==
    /\ [][ \A b \in DOMAIN task \cap DOMAIN task' :
              (task'[b].st = "collected" /\ task[b].st # "collected") =>
                 /\ task[b].st = "done"
                 /\ task'[b].result = task[b].result
        ]_vars
    /\ []((pc = "collect") =>
            /\ { opportunities[i] : i \in 1 .. Len(opportunities) } = CollectedResults
            /\ Len(opportunities) = Cardinality(CollectedResults))
    /\ [][ (pc = "collect" /\ pc' = "sleep") =>
              \A b \in DOMAIN task : task[b].st \notin {"queued", "update"}
        ]_vars

\* an Opportunity is in the list while another evaluation of the same scan is
\* between its read and its write of the cache
C21_Witness ==
    /\ pc = "collect"
    /\ Len(opportunities) = 1
    /\ \E b, c \in DOMAIN task :
         /\ task[b].st = "collected"
         /\ task[b].result # << >>
         /\ task[c].st = "update"

\* ------------------------------------------------------------------ C22
\* C22: a step of the engine adds no holding and changes no entry price; the
\* holdings change only by a removal inside check_holdings, and a step from
\* inside scan_market leaves them unchanged; a step from inside
\* check_holdings leaves the price-change cache unchanged; and once loaded,
\* the watch-list never changes.
C22_HoldingsOnlyRemoved ==
    [][ /\ DOMAIN hold_list' \subseteq DOMAIN hold_list
        /\ \A b \in DOMAIN hold_list' : hold_list'[b] = hold_list[b]
        /\ (hold_list' # hold_list) =>
              /\ pc = "holdings"
              /\ pc' = "holdings"
              /\ Cardinality(DOMAIN hold_list') = Cardinality(DOMAIN hold_list) - 1
        /\ (pc \in {"fetch", "fanout", "collect", "interrupt_join"}) =>
              hold_list' = hold_list
        /\ (pc = "holdings") => stock_price_cache' = stock_price_cache
        /\ (pc # "start") => bond_stock_map' = bond_stock_map
      ]_vars

\* a scan has found an Opportunity for a bond whose holding check_holdings
\* closed earlier, and the holdings are still without it
C22_Witness ==
    /\ pc = "collect"
    /\ Len(opportunities) >= 1
    /\ opportunities[1].bond_code \notin DOMAIN hold_list
    /\ DOMAIN hold_list # {}
    /\ DOMAIN stock_price_cache # {}

\* ------------------------------------------------------------------ C23
\* the snapshot of the cycle holds a row for bond b
RowOf(b) == Table.bond_change[b] # NoRow

\* C23: the evaluation of a pair without a snapshot row ends with no
\* Opportunity and no error and leaves the cache as it was; a key enters the
\* cache only in a step of a watched pair on that underlying that has a row
\* in the snapshot of the scan; no key ever leaves the cache; every key of
\* the cache is the underlying of a watched pair.
C23_NoRowNoCacheEntry ==
    /\ [][ \A b \in DOMAIN task \cap DOMAIN task' :
              (task[b].st = "queued" /\ task'[b].st # "queued" /\ ~RowOf(b)) =>
                 /\ task'[b].st = "done"
                 /\ task'[b].result = << >>
                 /\ ~task'[b].failed
                 /\ stock_price_cache' = stock_price_cache
        ]_vars
    /\ [][ \A s \in DOMAIN stock_price_cache' \ DOMAIN stock_price_cache :
              \E b \in DOMAIN task :
                 /\ bond_stock_map[b] = s
                 /\ RowOf(b)
                 /\ task[b].st = "update"
                 /\ task'[b].st = "done"
        ]_vars
    /\ [][ DOMAIN stock_price_cache \subseteq DOMAIN stock_price_cache' ]_vars
    /\ [](DOMAIN stock_price_cache \subseteq StocksOf(bond_stock_map))

\* a scan has evaluated a pair without a row, whose underlying is not in the
\* cache, and a pair with a row, whose underlying is
C23_Witness ==
    /\ pc = "collect"
    /\ \E b, c \in DOMAIN task :
         /\ ~RowOf(b)
         /\ task[b].st = "collected"
         /\ ~task[b].failed
         /\ bond_stock_map[b] \notin DOMAIN stock_price_cache
         /\ RowOf(c)
         /\ task[c].st = "collected"
         /\ bond_stock_map[c] \in DOMAIN stock_price_cache

====
